---- MODULE Spec2Model ----
(***************************************************************************)
(* Tic-Tac-Toe (Code_tic_tac_toe.py): the outcome evaluator check_winner,  *)
(* the minimax search best_move_for_computer and the game loop play_game.  *)
(*                                                                         *)
(* A board is a function 0..8 -> {" ", "X", "O"} (the Python list of 9     *)
(* one-character strings).  Python's None is the string "None".            *)
(* The search mutates the board in place; the operators that model it      *)
(* therefore return the board as the call leaves it, next to their value.  *)
(***************************************************************************)
EXTENDS Integers, Sequences, FiniteSets, TLC

VARIABLES
    board,          \* the list `board`
    board0,         \* history: the board when the current call / ply started
    pc,             \* control position
    vs_computer,    \* play_game's parameter
    human_symbol,   \* play_game's local / the search's `human`
    comp_symbol,    \* play_game's local / the search's `comp`
    current,        \* play_game's local: the mark to move
    result,         \* the last value returned by check_winner
    move,           \* the last cell chosen (index 0..8), -1 before any
    candidates,     \* best_move_for_computer's list when random.choice runs
    scored,         \* history: the boards the last search handed to minimax at
                    \* its top level, one per candidate move, in order
    scores          \* history: the scores those calls of minimax returned

vars == <<board, board0, pc, vs_computer, human_symbol, comp_symbol, current,
          result, move, candidates, scored, scores>>

----------------------------------------------------------------------------
(* Bounds *)

\* boards with any assignment of marks are searched when they have at most
\* this many empty cells; boards of alternating play are searched at any size
MaxEmptyAny == 6

----------------------------------------------------------------------------
(* Data *)

Marks == {"X", "O"}
Cell == {" ", "X", "O"}
Cells == 0..8
AllBoards == [Cells -> Cell]
EmptyBoard == [i \in Cells |-> " "]
Other(s) == IF s = "X" THEN "O" ELSE "X"
Count(b, s) == Cardinality({i \in Cells : b[i] = s})

\* math.inf, above every score (scores lie in -10..10)
inf == 1000

\* the 8 triples of check_winner, in the order of the source
wins == << <<0,1,2>>, <<3,4,5>>, <<6,7,8>>,
           <<0,3,6>>, <<1,4,7>>, <<2,5,8>>,
           <<0,4,8>>, <<2,4,6>> >>

\* board[a] == board[b] == board[c] and board[a] != ' '
Line(b, a1, a2, a3) == b[a1] # " " /\ b[a1] = b[a2] /\ b[a2] = b[a3]

\* mutant: the diagonal (0,4,8) is missing from the scan
check_winner_nodiag(b) ==
    IF Line(b, 0, 1, 2) THEN b[0]
    ELSE IF Line(b, 3, 4, 5) THEN b[3]
    ELSE IF Line(b, 6, 7, 8) THEN b[6]
    ELSE IF Line(b, 0, 3, 6) THEN b[0]
    ELSE IF Line(b, 1, 4, 7) THEN b[1]
    ELSE IF Line(b, 2, 5, 8) THEN b[2]
    ELSE IF Line(b, 2, 4, 6) THEN b[2]
    ELSE IF \A i \in Cells : b[i] # " " THEN "Tie" ELSE "None"

\* mutant: the test for a full board is missing
check_winner_notie(b) ==
    IF Line(b, 0, 1, 2) THEN b[0]
    ELSE IF Line(b, 3, 4, 5) THEN b[3]
    ELSE IF Line(b, 6, 7, 8) THEN b[6]
    ELSE IF Line(b, 0, 3, 6) THEN b[0]
    ELSE IF Line(b, 1, 4, 7) THEN b[1]
    ELSE IF Line(b, 2, 5, 8) THEN b[2]
    ELSE IF Line(b, 0, 4, 8) THEN b[0]
    ELSE IF Line(b, 2, 4, 6) THEN b[2]
    ELSE "None"

\* mutant: the test for a full board skips the last cell
check_winner_tie8(b) ==
    IF Line(b, 0, 1, 2) THEN b[0]
    ELSE IF Line(b, 3, 4, 5) THEN b[3]
    ELSE IF Line(b, 6, 7, 8) THEN b[6]
    ELSE IF Line(b, 0, 3, 6) THEN b[0]
    ELSE IF Line(b, 1, 4, 7) THEN b[1]
    ELSE IF Line(b, 2, 5, 8) THEN b[2]
    ELSE IF Line(b, 0, 4, 8) THEN b[0]
    ELSE IF Line(b, 2, 4, 6) THEN b[2]
    ELSE IF \A i \in 0..7 : b[i] # " " THEN "Tie" ELSE "None"

\* check_winner: the first complete line in scan order decides; then Tie
\* on a full board; else None.  (The scan over `wins` is unrolled.)
check_winner(b) ==
    IF Line(b, 0, 1, 2) THEN b[0]
    ELSE IF Line(b, 3, 4, 5) THEN b[3]
    ELSE IF Line(b, 6, 7, 8) THEN b[6]
    ELSE IF Line(b, 0, 3, 6) THEN b[0]
    ELSE IF Line(b, 1, 4, 7) THEN b[1]
    ELSE IF Line(b, 2, 5, 8) THEN b[2]
    ELSE IF Line(b, 0, 4, 8) THEN b[0]
    ELSE IF Line(b, 2, 4, 6) THEN b[2]
    ELSE IF \A i \in Cells : b[i] # " " THEN "Tie" ELSE "None"

\* [i for i, c in enumerate(board) if c == ' ']
available_moves(b) == SelectSeq(<<0, 1, 2, 3, 4, 5, 6, 7, 8>>, LAMBDA i : b[i] = " ")

max(a, b) == IF a >= b THEN a ELSE b
min(a, b) == IF a <= b THEN a ELSE b

----------------------------------------------------------------------------
(* minimax: returns <<score, board as left by the call>> *)

RECURSIVE minimax(_, _, _, _, _), minimax_loop(_, _, _, _, _, _, _, _)

\* mutant: the speculative placement is not undone (no board[move] = ' ')
minimax_loop_noundo(b, moves, k, best_score, depth, is_maximizing, player, opponent) ==
    IF k > Len(moves) THEN <<best_score, b>>
    ELSE LET r == minimax([b EXCEPT ![moves[k]] = IF is_maximizing THEN player ELSE opponent],
                          depth + 1, ~is_maximizing, player, opponent)
         IN  minimax_loop(r[2], moves, k + 1,
                          IF is_maximizing THEN max(best_score, r[1]) ELSE min(best_score, r[1]),
                          depth, is_maximizing, player, opponent)

\* mutant: the minimizing branch folds with max as well
minimax_loop_allmax(b, moves, k, best_score, depth, is_maximizing, player, opponent) ==
    IF k > Len(moves) THEN <<best_score, b>>
    ELSE LET r == minimax([b EXCEPT ![moves[k]] = IF is_maximizing THEN player ELSE opponent],
                          depth + 1, ~is_maximizing, player, opponent)
         IN  minimax_loop([r[2] EXCEPT ![moves[k]] = " "], moves, k + 1,
                          max(IF is_maximizing THEN best_score ELSE -inf, r[1]),
                          depth, is_maximizing, player, opponent)

\* the two `for move in available_moves(board)` loops of minimax, from the
\* k-th move on: place, recurse, undo, fold with max / min
minimax_loop(b, moves, k, best_score, depth, is_maximizing, player, opponent) ==
    IF k > Len(moves) THEN <<best_score, b>>
    ELSE LET r == minimax([b EXCEPT ![moves[k]] = IF is_maximizing THEN player ELSE opponent],
                          depth + 1, ~is_maximizing, player, opponent)
         IN  minimax_loop([r[2] EXCEPT ![moves[k]] = " "], moves, k + 1,
                          IF is_maximizing THEN max(best_score, r[1]) ELSE min(best_score, r[1]),
                          depth, is_maximizing, player, opponent)

\* mutant: wins and losses score 10 and -10 whatever the depth
minimax_flat(b, depth, is_maximizing, player, opponent) ==
    LET res == check_winner(b) IN
    IF res = player THEN <<10, b>>
    ELSE IF res = opponent THEN <<-10, b>>
    ELSE IF res = "Tie" THEN <<0, b>>
    ELSE minimax_loop(b, available_moves(b), 1, IF is_maximizing THEN -inf ELSE inf,
                      depth, is_maximizing, player, opponent)

minimax(b, depth, is_maximizing, player, opponent) ==
    LET res == check_winner(b) IN
    IF res = player THEN <<10 - depth, b>>
    ELSE IF res = opponent THEN <<-10 + depth, b>>
    ELSE IF res = "Tie" THEN <<0, b>>
    ELSE minimax_loop(b, available_moves(b), 1, IF is_maximizing THEN -inf ELSE inf,
                      depth, is_maximizing, player, opponent)

----------------------------------------------------------------------------
(* best_move_for_computer: returns [candidates, board as left by the *)
(* call, scored: the boards handed to minimax, scores: what it returned]   *)

RECURSIVE best_move_loop(_, _, _, _, _, _, _, _, _)

\* mutant: after the computer's placement the scorer is entered as if the
\* computer were to move again (is_maximizing True)
best_move_loop_maxturn(b, moves, k, best_score, cands, sc, ss, comp, human) ==
    IF k > Len(moves) THEN [candidates |-> cands, board |-> b, scored |-> sc, scores |-> ss]
    ELSE LET r == minimax([b EXCEPT ![moves[k]] = comp], 0, TRUE, comp, human)
             b2 == [r[2] EXCEPT ![moves[k]] = " "]
             sc2 == Append(sc, [b EXCEPT ![moves[k]] = comp])
             ss2 == Append(ss, r[1])
         IN  IF r[1] > best_score
             THEN best_move_loop(b2, moves, k + 1, r[1], <<moves[k]>>, sc2, ss2, comp, human)
             ELSE IF r[1] = best_score
             THEN best_move_loop(b2, moves, k + 1, best_score, Append(cands, moves[k]), sc2, ss2, comp, human)
             ELSE best_move_loop(b2, moves, k + 1, best_score, cands, sc2, ss2, comp, human)

\* mutant: no `elif score == best_score` branch: only the first best move
\* is kept
best_move_loop_first(b, moves, k, best_score, cands, sc, ss, comp, human) ==
    IF k > Len(moves) THEN [candidates |-> cands, board |-> b, scored |-> sc, scores |-> ss]
    ELSE LET r == minimax([b EXCEPT ![moves[k]] = comp], 0, FALSE, comp, human)
             b2 == [r[2] EXCEPT ![moves[k]] = " "]
             sc2 == Append(sc, [b EXCEPT ![moves[k]] = comp])
             ss2 == Append(ss, r[1])
         IN  IF r[1] > best_score
             THEN best_move_loop(b2, moves, k + 1, r[1], <<moves[k]>>, sc2, ss2, comp, human)
             ELSE best_move_loop(b2, moves, k + 1, best_score, cands, sc2, ss2, comp, human)

\* the `for move in available_moves(board)` loop of best_move_for_computer
best_move_loop(b, moves, k, best_score, cands, sc, ss, comp, human) ==
    IF k > Len(moves) THEN [candidates |-> cands, board |-> b, scored |-> sc, scores |-> ss]
    ELSE LET r == minimax([b EXCEPT ![moves[k]] = comp], 0, FALSE, comp, human)
             b2 == [r[2] EXCEPT ![moves[k]] = " "]
             sc2 == Append(sc, [b EXCEPT ![moves[k]] = comp])
             ss2 == Append(ss, r[1])
         IN  IF r[1] > best_score
             THEN best_move_loop(b2, moves, k + 1, r[1], <<moves[k]>>, sc2, ss2, comp, human)
             ELSE IF r[1] = best_score
             THEN best_move_loop(b2, moves, k + 1, best_score, Append(cands, moves[k]), sc2, ss2, comp, human)
             ELSE best_move_loop(b2, moves, k + 1, best_score, cands, sc2, ss2, comp, human)

\* mutant: best_score starts at math.inf instead of -math.inf
best_move_posinf(b, comp, human) ==
    best_move_loop(b, available_moves(b), 1, inf, << >>, << >>, << >>, comp, human)

\* mutant: every cell 0..8 is tried, not only the empty ones
best_move_all_cells(b, comp, human) ==
    best_move_loop(b, <<0, 1, 2, 3, 4, 5, 6, 7, 8>>, 1, -inf, << >>, << >>, << >>, comp, human)

\* mutant: the candidates are all the legal moves, whatever their score
best_move_any(b, comp, human) ==
    [candidates |-> available_moves(b), board |-> b, scored |-> << >>, scores |-> << >>]

\* the state of best_move_for_computer when it reaches random.choice
best_move_for_computer(b, comp, human) ==
    best_move_loop(b, available_moves(b), 1, -inf, << >>, << >>, << >>, comp, human)

----------------------------------------------------------------------------
(* play_game *)

Init ==
    /\ board = EmptyBoard
    /\ board0 = EmptyBoard
    /\ pc = "setup"
    /\ vs_computer \in BOOLEAN
    /\ human_symbol = "X"
    /\ comp_symbol = "O"
    /\ current = "X"
    /\ result = "None"
    /\ move = -1
    /\ candidates = << >>
    /\ scored = << >>
    /\ scores = << >>

\* vs_computer: the human answers X or O (any other answer asks again)
ChooseSymbol ==
    /\ pc = "setup" /\ vs_computer
    /\ \E s \in Marks :
         /\ human_symbol' = s
         /\ comp_symbol' = IF s = "X" THEN "O" ELSE "X"
    /\ current' = "X"
    /\ pc' = "turn"
    /\ UNCHANGED <<board, board0, vs_computer, result, move, candidates, scored, scores>>

\* 2-player mode
TwoPlayerStart ==
    /\ pc = "setup" /\ ~vs_computer
    /\ pc' = "turn"
    /\ UNCHANGED <<board, board0, vs_computer, human_symbol, comp_symbol, current,
                   result, move, candidates, scored, scores>>

\* mutant: the loop breaks on a winner only, not on 'Tie'
EndOfPly_winonly(b) ==
    /\ board' = b
    /\ result' = check_winner(b)
    /\ IF result' \in Marks
       THEN pc' = "done" /\ current' = current
       ELSE pc' = "turn" /\ current' = (IF current = "X" THEN "O" ELSE "X")

\* mutant: the loop breaks on 'Tie' only, not on a winner
EndOfPly_tieonly(b) ==
    /\ board' = b
    /\ result' = check_winner(b)
    /\ IF result' = "Tie"
       THEN pc' = "done" /\ current' = current
       ELSE pc' = "turn" /\ current' = (IF current = "X" THEN "O" ELSE "X")

\* mutant: the player is not switched after a ply
EndOfPly_noswitch(b) ==
    /\ board' = b
    /\ result' = check_winner(b)
    /\ IF result' # "None"
       THEN pc' = "done" /\ current' = current
       ELSE pc' = "turn" /\ current' = current

\* the rest of a loop iteration once the ply left board b: check_winner,
\* break on a result, else switch player
EndOfPly(b) ==
    /\ board' = b
    /\ result' = check_winner(b)
    /\ IF result' # "None"
       THEN pc' = "done" /\ current' = current
       ELSE pc' = "turn" /\ current' = (IF current = "X" THEN "O" ELSE "X")

\* one iteration of the while loop, computer to move
ComputerTurn ==
    /\ pc = "turn" /\ vs_computer /\ current = comp_symbol
    /\ \E r \in {best_move_for_computer(board, comp_symbol, human_symbol)} :
         /\ r.candidates # << >>
         /\ \E i \in 1..Len(r.candidates) :
              /\ move' = r.candidates[i]
              /\ EndOfPly([r.board EXCEPT ![r.candidates[i]] = comp_symbol])
         /\ candidates' = r.candidates
         /\ scored' = r.scored
         /\ scores' = r.scores
    /\ board0' = board
    /\ UNCHANGED <<vs_computer, human_symbol, comp_symbol>>

\* mutant: human_turn does not test that the cell is empty
HumanTurn_overwrite ==
    /\ pc = "turn" /\ ~(vs_computer /\ current = comp_symbol)
    /\ \E pos \in Cells :
         /\ move' = pos
         /\ EndOfPly([board EXCEPT ![pos] = current])
    /\ board0' = board
    /\ UNCHANGED <<vs_computer, human_symbol, comp_symbol, candidates, scored, scores>>

\* one iteration of the while loop, a human to move: human_turn accepts a
\* position 1..9 whose cell is empty (anything else asks again)
HumanTurn ==
    /\ pc = "turn" /\ ~(vs_computer /\ current = comp_symbol)
    /\ \E pos \in Cells :
         /\ board[pos] = " "
         /\ move' = pos
         /\ EndOfPly([board EXCEPT ![pos] = current])
    /\ board0' = board
    /\ UNCHANGED <<vs_computer, human_symbol, comp_symbol, candidates, scored, scores>>

\* human_turn: 'q', 'quit' or 'exit' ends the process
HumanQuit ==
    /\ pc = "turn" /\ ~(vs_computer /\ current = comp_symbol)
    /\ pc' = "exit"
    /\ UNCHANGED <<board, board0, vs_computer, human_symbol, comp_symbol, current,
                   result, move, candidates, scored, scores>>

Next == ChooseSymbol \/ TwoPlayerStart \/ ComputerTurn \/ HumanTurn \/ HumanQuit

Spec == Init /\ [][Next]_vars

----------------------------------------------------------------------------
\* C1: in a human-versus-computer game no reachable board is a win for the
\* human's mark, whatever the human plays and however ties are broken.
ComputerNeverLoses ==
    vs_computer /\ pc # "setup" => check_winner(board) # human_symbol

\* a finished game against the computer in which the human moved first
ComputerNeverLosesWitness ==
    /\ vs_computer /\ pc = "done" /\ human_symbol = "X"
    /\ result \in {"O", "Tie"}
    /\ Count(board, "X") >= 3

----------------------------------------------------------------------------
(* check_winner as a function of any board *)

EvalInit ==
    /\ board \in AllBoards
    /\ board0 = board
    /\ pc = "call"
    /\ vs_computer = FALSE
    /\ human_symbol = "X"
    /\ comp_symbol = "O"
    /\ current = "X"
    /\ result = "None"
    /\ move = -1
    /\ candidates = << >>
    /\ scored = << >>
    /\ scores = << >>

\* result = check_winner(board)
EvalCall ==
    /\ pc = "call"
    /\ result' = check_winner(board)
    /\ pc' = "returned"
    /\ UNCHANGED <<board, board0, vs_computer, human_symbol, comp_symbol, current,
                   move, candidates, scored, scores>>

EvalNext == EvalCall

EvalSpec == EvalInit /\ [][EvalNext]_vars

\* the line wins[i] is filled with one mark on b
Complete(b, i) ==
    /\ b[wins[i][1]] \in Marks
    /\ b[wins[i][2]] = b[wins[i][1]]
    /\ b[wins[i][3]] = b[wins[i][1]]
HasLine(b, s) == \E i \in 1..Len(wins) : Complete(b, i) /\ b[wins[i][1]] = s
NoLine(b) == \A i \in 1..Len(wins) : ~Complete(b, i)
Full(b) == \A i \in Cells : b[i] # " "

\* C8 as stated: on every board, for every line filled with one mark,
\* check_winner returns that mark.
WonByEveryCompleteLine ==
    pc = "returned" =>
        \A i \in 1..Len(wins) : Complete(board, i) => result = board[wins[i][1]]

\* C8 amended: on every board with a complete line, check_winner returns
\* the mark of the first complete line in scan order (rows, columns,
\* diagonals); hence the mark of every complete line when only one mark
\* has any.
WonByFirstCompleteLine ==
    pc = "returned" =>
        /\ \A i \in 1..Len(wins) :
              (Complete(board, i) /\ \A j \in 1..(i - 1) : ~Complete(board, j))
                  => result = board[wins[i][1]]
        /\ \A s \in Marks : (HasLine(board, s) /\ ~HasLine(board, Other(s))) => result = s

\* a board with a complete diagonal of O among other marks, evaluated
WonByFirstCompleteLineWitness ==
    /\ pc = "returned" /\ result = "O"
    /\ Complete(board, 7) /\ \A j \in 1..6 : ~Complete(board, j)
    /\ Count(board, "X") = 4

\* C9: a full board without a complete line is a Tie.
FullNoLineIsTie ==
    pc = "returned" /\ Full(board) /\ NoLine(board) => result = "Tie"

FullNoLineIsTieWitness ==
    pc = "returned" /\ Full(board) /\ NoLine(board) /\ result = "Tie"

\* C10: a board with an empty cell and no complete line is ongoing (None).
OpenNoLineIsOngoing ==
    pc = "returned" /\ ~Full(board) /\ NoLine(board) => result = "None"

\* the only empty cell is the last one
OpenNoLineIsOngoingWitness ==
    /\ pc = "returned" /\ NoLine(board) /\ result = "None"
    /\ board[8] = " " /\ Count(board, " ") = 1

----------------------------------------------------------------------------
(* play_game: the loop *)

\* C16: whenever the game loop is about to call the search, the board is
\* one that check_winner classifies as ongoing and has an empty cell; and
\* the board every search was called on (board0 after a computer's ply)
\* was such a board.
SearchCalledOnOngoing ==
    /\ pc = "turn" /\ vs_computer /\ current = comp_symbol =>
          check_winner(board) = "None" /\ \E i \in Cells : board[i] = " "
    /\ vs_computer /\ pc \in {"turn", "done"} /\ board # EmptyBoard
          /\ board[move] = comp_symbol =>
          check_winner(board0) = "None" /\ board0[move] = " "

\* the computer is to move on the last empty cell
SearchCalledOnOngoingWitness ==
    /\ pc = "turn" /\ vs_computer /\ current = comp_symbol
    /\ Count(board, " ") = 1 /\ check_winner(board) = "None"

\* C17: every step of play_game that touches the board is a ply that sets
\* exactly one empty cell to the mover's mark and leaves the other 8 cells
\* as they are; a cell that holds a mark keeps it.
PlySetsOneEmptyCell ==
    [][/\ \A i \in Cells : board[i] # " " => board'[i] = board[i]
       /\ board' # board =>
            \E p \in Cells : /\ board[p] = " "
                              /\ board' = [board EXCEPT ![p] = current]
                              /\ move' = p /\ board0' = board]_vars

\* a computer's ply was made on a board that already held four marks
PlySetsOneEmptyCellWitness ==
    /\ vs_computer /\ pc = "turn" /\ Count(board, " ") = 4
    /\ board[move] = comp_symbol /\ board0 = [board EXCEPT ![move] = " "]

\* C18: on every board play_game reaches at most one mark has a complete
\* line, so check_winner returns the mark of every complete line: the scan
\* order of the 8 lines does not matter.
OneWinnerAtMost ==
    /\ ~(HasLine(board, "X") /\ HasLine(board, "O"))
    /\ \A i \in 1..Len(wins) : Complete(board, i) => check_winner(board) = board[wins[i][1]]

\* a game won with two lines completed by one move
OneWinnerAtMostWitness ==
    /\ pc = "done" /\ result = "X"
    /\ Cardinality({i \in 1..Len(wins) : Complete(board, i)}) = 2

\* C19: X moves first and the movers alternate: between plies X has as many
\* cells as O when X is to move and one more when O is to move; a game that
\* ends in a win is won by the mark that moved last.
MoversAlternate ==
    /\ pc = "setup" => current = "X" /\ board = EmptyBoard
    /\ pc \in {"turn", "exit"} =>
          Count(board, "X") - Count(board, "O") = (IF current = "X" THEN 0 ELSE 1)
    /\ pc = "turn" /\ board # EmptyBoard => board[move] = Other(current)
    /\ pc = "done" => board[move] = current
    /\ pc = "done" /\ result \in Marks => result = current /\ result = board[move]

\* O won a game with its fourth mark
MoversAlternateWitness ==
    pc = "done" /\ result = "O" /\ current = "O" /\ Count(board, "O") = 4

\* C20: a game in which the human always enters a legal move ends on a
\* terminal board after at most 9 plies, and no ply follows the first
\* terminal board.  Termination is stated by its halves: while the loop
\* runs the board is ongoing with an empty cell, so the human has a legal
\* move and the search a cell to return; every step of the loop is one ply
\* that fills one cell (or the human's quit); the loop is left exactly when
\* check_winner returns a mark or 'Tie', and nothing happens after that.
GameEndsWithinNinePlies ==
    /\ [](pc = "turn" => check_winner(board) = "None" /\ Count(board, " ") >= 1)
    /\ [](pc = "turn" /\ vs_computer /\ current = comp_symbol =>
            best_move_for_computer(board, comp_symbol, human_symbol).candidates # << >>)
    /\ [](pc = "done" => result = check_winner(board) /\ result \in {"X", "O", "Tie"})
    /\ [][\/ pc = "setup" /\ pc' = "turn" /\ board' = board
          \/ pc = "turn" /\ pc' = "exit" /\ board' = board
          \/ /\ pc = "turn"
             /\ Count(board', " ") = Count(board, " ") - 1
             /\ pc' = (IF check_winner(board') = "None" THEN "turn" ELSE "done")]_vars

\* a game against the computer that ended in a Tie with the ninth ply
GameEndsWithinNinePliesWitness ==
    /\ pc = "done" /\ vs_computer /\ human_symbol = "O"
    /\ result = "Tie" /\ Count(board, " ") = 0

----------------------------------------------------------------------------
(* best_move_for_computer as a function of a board and the two marks *)

\* the mark to move on b when X starts and the marks alternate
ToMove(b) == IF Count(b, "X") = Count(b, "O") THEN "X" ELSE "O"
Alternating(b) == Count(b, "X") - Count(b, "O") \in {0, 1}

\* the inputs: every board of alternating play with the computer to move,
\* and every assignment of marks with at most MaxEmptyAny empty cells
SearchInput(b, comp) ==
    \/ Count(b, " ") <= MaxEmptyAny
    \/ Alternating(b) /\ ToMove(b) = comp

SearchInit ==
    /\ board \in AllBoards
    /\ comp_symbol \in Marks
    /\ SearchInput(board, comp_symbol)
    /\ human_symbol = Other(comp_symbol)
    /\ board0 = board
    /\ pc = "call"
    /\ vs_computer = TRUE
    /\ current = comp_symbol
    /\ result = "None"
    /\ move = -1
    /\ candidates = << >>
    /\ scored = << >>
    /\ scores = << >>

\* move = best_move_for_computer(board, comp_symbol, human_symbol);
\* random.choice raises IndexError on an empty list
SearchCall ==
    /\ pc = "call"
    /\ \E r \in {best_move_for_computer(board, comp_symbol, human_symbol)} :
         /\ board' = r.board
         /\ candidates' = r.candidates
         /\ scored' = r.scored
         /\ scores' = r.scores
         /\ IF r.candidates = << >>
            THEN pc' = "raised" /\ move' = move
            ELSE /\ pc' = "returned"
                 /\ \E i \in 1..Len(r.candidates) : move' = r.candidates[i]
    /\ UNCHANGED <<board0, vs_computer, human_symbol, comp_symbol, current, result>>

SearchNext == SearchCall

SearchSpec == SearchInit /\ [][SearchNext]_vars

Ongoing(b) == check_winner(b) = "None"

\* a call as play_game makes it: ongoing board, X started, comp to move
GameCall(b, comp) == Ongoing(b) /\ Alternating(b) /\ ToMove(b) = comp

\* the empty cells that complete a line of s: the other two cells hold s
ImmediateWins(b, s) ==
    {p \in Cells : b[p] = " " /\ \E i \in 1..Len(wins) :
        \E j \in 1..3 : wins[i][j] = p /\ \A l \in (1..3) \ {j} : b[wins[i][l]] = s}

\* s wins from b against every play of the other mark, `mover` to move
RECURSIVE CanForceWin(_, _, _)
CanForceWin(b, s, mover) ==
    IF HasLine(b, s) THEN TRUE
    ELSE IF HasLine(b, Other(s)) \/ Full(b) THEN FALSE
    ELSE IF mover = s
         THEN \E p \in Cells : b[p] = " " /\ CanForceWin([b EXCEPT ![p] = s], s, Other(s))
         ELSE \A p \in Cells : b[p] = " " => CanForceWin([b EXCEPT ![p] = mover], s, s)

\* C3: when best_move_for_computer returns, the board is cell for cell the
\* board it was given: every placement of the search has been undone; and
\* each candidate move was scored on the input board plus that move only.
BoardRestored ==
    pc \in {"returned", "raised"} =>
        /\ board = board0
        /\ Len(scored) = Count(board0, " ")
        /\ \A k \in 1..Len(scored) :
              scored[k] = [board0 EXCEPT ![available_moves(board0)[k]] = comp_symbol]

\* a call whose search recursed at least three plies deep
BoardRestoredWitness ==
    /\ pc = "returned" /\ board = board0 /\ Count(board0, " ") >= 5
    /\ GameCall(board0, comp_symbol)

\* C4: the returned index is in 0..8 and its cell is empty on the input.
ReturnsEmptyCell ==
    pc = "returned" => move \in Cells /\ board0[move] = " "

\* a return on a board that has both taken and empty cells
ReturnsEmptyCellWitness ==
    /\ pc = "returned" /\ move \in Cells /\ board0[move] = " "
    /\ Count(board0, " ") = 3 /\ GameCall(board0, comp_symbol)

\* C5 as stated: for every line with two computer marks and an empty third
\* cell, the search returns that third cell.  (Stated on the boards of
\* alternating play with the computer to move, which the claim includes.)
TakesEveryImmediateWin ==
    pc = "returned" /\ Ongoing(board0) /\ Alternating(board0) /\ ToMove(board0) = comp_symbol =>
        \A p \in ImmediateWins(board0, comp_symbol) : move = p

\* C5 amended: when some line holds two computer marks and an empty third
\* cell, the search returns the third cell of such a line.
TakesAnImmediateWin ==
    pc = "returned" /\ Ongoing(board0) /\ ImmediateWins(board0, comp_symbol) # {} =>
        move \in ImmediateWins(board0, comp_symbol)

\* two different cells win at once and the second is returned
TakesAnImmediateWinWitness ==
    /\ pc = "returned" /\ GameCall(board0, comp_symbol)
    /\ Cardinality(ImmediateWins(board0, comp_symbol)) = 2
    /\ Len(candidates) = 2 /\ move = candidates[2]

\* C6 as stated: without an immediate win of its own, the search returns the
\* third cell of every line with two opponent marks and an empty third cell.
\* (Stated on the boards of alternating play with the computer to move,
\* which the claim includes.)
BlocksEveryThreat ==
    pc = "returned" /\ Ongoing(board0) /\ Alternating(board0) /\ ToMove(board0) = comp_symbol
        /\ ImmediateWins(board0, comp_symbol) = {} =>
        \A p \in ImmediateWins(board0, human_symbol) : move = p

\* C6 amended: without an immediate win of its own and with exactly one
\* cell where the opponent completes a line, the search returns that cell.
BlocksTheOnlyThreat ==
    pc = "returned" /\ Ongoing(board0) /\ ImmediateWins(board0, comp_symbol) = {} =>
        \A p \in Cells : ImmediateWins(board0, human_symbol) = {p} => move = p

\* a forced block in a position the computer loses anyway
BlocksTheOnlyThreatWitness ==
    /\ pc = "returned" /\ GameCall(board0, comp_symbol)
    /\ ImmediateWins(board0, comp_symbol) = {}
    /\ ImmediateWins(board0, human_symbol) = {move}
    /\ Count(board0, " ") >= 4
    /\ CanForceWin(board0, human_symbol, comp_symbol)

\* C7: from a board where the computer, to move, can force a win, every
\* returned cell leads to a board from which it can still force a win.
KeepsForcedWin ==
    pc = "returned" /\ Ongoing(board0) /\ CanForceWin(board0, comp_symbol, comp_symbol) =>
        CanForceWin([board0 EXCEPT ![move] = comp_symbol], comp_symbol, human_symbol)

\* a forced win that is not an immediate one
KeepsForcedWinWitness ==
    /\ pc = "returned" /\ GameCall(board0, comp_symbol)
    /\ ImmediateWins(board0, comp_symbol) = {}
    /\ CanForceWin(board0, comp_symbol, comp_symbol)
    /\ CanForceWin([board0 EXCEPT ![move] = comp_symbol], comp_symbol, human_symbol)

\* C11: on every board that check_winner classifies as ongoing (it then has
\* an empty cell) the candidate list is not empty when random.choice runs:
\* the call returns a cell and does not raise.
TotalOnOngoing ==
    pc # "call" /\ Ongoing(board0) =>
        /\ \E i \in Cells : board0[i] = " "
        /\ pc = "returned"
        /\ candidates # << >>
        /\ \E i \in 1..Len(candidates) : move = candidates[i]

\* a return on an ongoing board whose last empty cell is the only candidate
TotalOnOngoingWitness ==
    /\ pc = "returned" /\ GameCall(board0, comp_symbol)
    /\ Count(board0, " ") = 1 /\ candidates = <<move>>

\* the board whose only mark is X in the centre
CentreBoard == [EmptyBoard EXCEPT ![4] = "X"]

\* C12: on the board with only X in the centre and the computer playing O,
\* every returned index is a corner, never an edge.
CentreReplyIsCorner ==
    pc = "returned" /\ board0 = CentreBoard /\ comp_symbol = "O" =>
        move \in {0, 2, 6, 8}

\* the last corner is returned
CentreReplyIsCornerWitness ==
    pc = "returned" /\ board0 = CentreBoard /\ comp_symbol = "O" /\ move = 8

\* X at 0 and 1, O at 4 and 8
ThreatBoard == [EmptyBoard EXCEPT ![0] = "X", ![1] = "X", ![4] = "O", ![8] = "O"]

\* C13: on the board X,X,_,_,O,_,_,_,O with the computer playing O, the
\* search returns index 2 for every tie-break.
ThreatBoardReturns2 ==
    pc = "returned" /\ board0 = ThreatBoard /\ comp_symbol = "O" =>
        move = 2 /\ candidates = <<2>>

ThreatBoardReturns2Witness ==
    pc = "returned" /\ board0 = ThreatBoard /\ comp_symbol = "O" /\ move = 2

\* the cells whose score is the greatest of the scores
BestScoring(moves, ss) ==
    {moves[k] : k \in {j \in 1..Len(ss) : \A l \in 1..Len(ss) : ss[l] <= ss[j]}}

\* C14: on every ongoing board the cells the search can return are exactly
\* the empty cells whose score (the computer's mark placed there, minimax at
\* depth 0, opponent to move) is the greatest over all empty cells; the
\* list keeps them all, in board order, and random.choice draws from it.
CandidatesAreAllBest ==
    pc = "returned" /\ Ongoing(board0) =>
        /\ Len(scores) = Len(available_moves(board0))
        /\ \A k \in 1..Len(scores) :
              scored[k] = [board0 EXCEPT ![available_moves(board0)[k]] = comp_symbol]
        /\ {candidates[i] : i \in 1..Len(candidates)}
              = BestScoring(available_moves(board0), scores)
        /\ candidates = SelectSeq(available_moves(board0),
                                  LAMBDA m : m \in BestScoring(available_moves(board0), scores))
        /\ \E i \in 1..Len(candidates) : move = candidates[i]

\* three cells share the best score, a fourth scores less, and the third
\* best cell is the one returned
CandidatesAreAllBestWitness ==
    /\ pc = "returned" /\ GameCall(board0, comp_symbol)
    /\ Len(candidates) = 3 /\ move = candidates[3]
    /\ Len(scores) > 3

\* three cells a1, a2, a3 of b hold s
Three(b, s, a1, a2, a3) == b[a1] = s /\ b[a2] = s /\ b[a3] = s

\* some row, column or diagonal of b is filled with s
Won(b, s) ==
    \/ Three(b, s, 0, 1, 2) \/ Three(b, s, 3, 4, 5) \/ Three(b, s, 6, 7, 8)
    \/ Three(b, s, 0, 3, 6) \/ Three(b, s, 1, 4, 7) \/ Three(b, s, 2, 5, 8)
    \/ Three(b, s, 0, 4, 8) \/ Three(b, s, 2, 4, 6)

\* s completes a line within n plies from b against every play of the
\* other mark, `mover` to move
RECURSIVE WinWithin(_, _, _, _)
WinWithin(b, s, mover, n) ==
    IF Won(b, s) THEN TRUE
    ELSE IF n <= 0 \/ Won(b, Other(s)) \/ Full(b) THEN FALSE
    ELSE IF mover = s
         THEN \E p \in Cells : b[p] = " " /\ WinWithin([b EXCEPT ![p] = s], s, Other(s), n - 1)
         ELSE \A p \in Cells : b[p] = " " => WinWithin([b EXCEPT ![p] = mover], s, s, n - 1)

\* the least n >= k with WinWithin(b, s, mover, n), or 10 when s cannot
\* force a win (a game has at most 9 plies)
RECURSIVE PliesToWinFrom(_, _, _, _)
PliesToWinFrom(b, s, mover, k) ==
    IF k > Count(b, " ") THEN 10
    ELSE IF WinWithin(b, s, mover, k) THEN k
    ELSE PliesToWinFrom(b, s, mover, k + 1)
PliesToWin(b, s, mover) == PliesToWinFrom(b, s, mover, 0)

\* C15: when the computer can force a win, every returned cell wins in the
\* least number of plies the opponent's best resistance allows; when every
\* move loses by force, every returned cell puts the loss off by the
\* greatest number of plies.
FastestWinSlowestLoss ==
    pc = "returned" /\ Ongoing(board0) =>
        LET w == PliesToWin(board0, comp_symbol, comp_symbol)
            l == IF w <= 9 THEN 10 ELSE PliesToWin(board0, human_symbol, comp_symbol)
            after == [board0 EXCEPT ![move] = comp_symbol]
        IN  /\ w <= 9 => WinWithin(after, comp_symbol, human_symbol, w - 1)
            /\ l <= 9 => ~WinWithin(after, human_symbol, human_symbol, l - 2)

\* a lost position in which the returned cell puts the loss off to the
\* fourth ply although other cells lose on the second
FastestWinSlowestLossWitness ==
    /\ pc = "returned" /\ GameCall(board0, comp_symbol)
    /\ Len(candidates) < Count(board0, " ")
    /\ PliesToWin(board0, human_symbol, comp_symbol) = 4
    /\ ~WinWithin([board0 EXCEPT ![move] = comp_symbol], human_symbol, human_symbol, 2)

----------------------------------------------------------------------------
(* both sides choose their moves with best_move_for_computer *)

SelfInit ==
    /\ board = EmptyBoard
    /\ board0 = EmptyBoard
    /\ pc = "turn"
    /\ vs_computer = TRUE
    /\ current = "X"
    /\ comp_symbol = "X"
    /\ human_symbol = "O"
    /\ result = "None"
    /\ move = -1
    /\ candidates = << >>
    /\ scored = << >>
    /\ scores = << >>

\* one iteration of play_game's loop in which the mark to move is the
\* search's computer mark and the other mark its human mark
SelfTurn ==
    /\ pc = "turn"
    /\ \E r \in {best_move_for_computer(board, current, Other(current))} :
         /\ r.candidates # << >>
         /\ \E i \in 1..Len(r.candidates) :
              /\ move' = r.candidates[i]
              /\ EndOfPly([r.board EXCEPT ![r.candidates[i]] = current])
         /\ candidates' = r.candidates
         /\ scored' = r.scored
         /\ scores' = r.scores
    /\ board0' = board
    /\ comp_symbol' = current'
    /\ human_symbol' = Other(current')
    /\ UNCHANGED vs_computer

SelfNext == SelfTurn

SelfSpec == SelfInit /\ [][SelfNext]_vars

\* C2: when both sides play best_move_for_computer from the empty board,
\* every game ends, and ends classified as a Tie.  Termination is stated
\* by its two halves: every step is a ply that fills exactly one of the 9
\* cells, and as long as the loop has not ended the next call of the search
\* has a cell to return.  No board on the way is a win for either mark.
SelfPlayEndsInTie ==
    /\ [](check_winner(board) \notin Marks)
    /\ [](pc = "done" => result = "Tie" /\ check_winner(board) = "Tie")
    /\ [](pc = "turn" =>
            best_move_for_computer(board, current, Other(current)).candidates # << >>)
    /\ [](pc \in {"turn", "done"})
    /\ [][pc = "turn" /\ Count(board', " ") = Count(board, " ") - 1]_vars

\* a finished self-played game on a full board
SelfPlayEndsInTieWitness ==
    pc = "done" /\ result = "Tie" /\ Full(board) /\ Count(board, "X") = 5

====
